---- MODULE Spec2Model ----
(***************************************************************************)
(* Model of scripts/build_indexes.py: the history builder and the deal     *)
(* detector of the Walmart snapshot indexer, with its pure helpers          *)
(* (slugify, to_float, extract_url_id, make_item_key,                       *)
(* normalize_store_slug).                                                   *)
(*                                                                          *)
(* Conventions.                                                             *)
(*  - A Python str is a sequence of one-character strings.                  *)
(*  - An optional JSON field is None (the empty tuple) or Some(v) = <<v>>.  *)
(*  - Prices are integers (price units); drop percentages are exact         *)
(*    rationals num/den; the drop_pct field is an integer number of         *)
(*    hundredths of a percent; a threshold is an integer number of          *)
(*    thousandths of a percent.                                             *)
(*  - A snapshot directory name is a natural number: n > 0 stands for the   *)
(*    n-th calendar date in YYYY-MM-DD form (lexical order = numeric        *)
(*    order), 0 for a name strptime rejects.                                *)
(***************************************************************************)
EXTENDS Integers, Sequences, FiniteSets, TLC

VARIABLES
    snap,            \* snapshots/: [dirs : set of names, files : name -> sorted seq of files]
    days,            \* args.days
    drop,            \* args.drop, in thousandths of a percent
    pc,              \* position of main()
    selected_dates,  \* build_history: names of dates[-days:]
    today,           \* build_history: selected_dates[-1], None when there is no date
    stores,          \* build_history: the defaultdict being folded
    cursor,          \* build_history / build_deals: files still to read
    history_output,  \* build_history's first result
    deals_by_store,  \* build_deals' result
    history_files,   \* indexes/history_store/<slug>.json as written
    deals_files,     \* indexes/deals_daily/<today>/<slug>.json as written
    item,            \* the record handed to a helper (helper specifications)
    fallback,        \* the fallback handed to normalize_store_slug
    result           \* the helper's return value

vars == <<snap, days, drop, pc, selected_dates, today, stores, cursor,
          history_output, deals_by_store, history_files, deals_files,
          item, fallback, result>>

pipeVars == <<snap, days, drop, selected_dates, today, stores, cursor,
              history_output, deals_by_store, history_files, deals_files>>

-----------------------------------------------------------------------------
(* Bounds of the model.                                                     *)

MaxLabelLen == 2
MaxUrlParts == 4
MaxDates == 3
MaxDays == 2
MaxRecs == 3

\* most snapshot dates in the runs that exercise the deal guards
MaxGuardDates == 2

-----------------------------------------------------------------------------
(* Optional values and strings.                                             *)

None == <<>>

Some(v) == <<v>>

IsSome(o) == o # <<>>

Val(o) == o[1]

\* Python truthiness of an optional string: None and "" are falsy.
Truthy(o) == IsSome(o) /\ Val(o) # <<>>

\* Python's  a or b  on optional strings.
PyOr(a, b) == IF Truthy(a) THEN a ELSE b

UpperLetters ==
    <<"A","B","C","D","E","F","G","H","I","J","K","L","M",
      "N","O","P","Q","R","S","T","U","V","W","X","Y","Z">>

LowerLetters ==
    <<"a","b","c","d","e","f","g","h","i","j","k","l","m",
      "n","o","p","q","r","s","t","u","v","w","x","y","z">>

DigitChars == {"0","1","2","3","4","5","6","7","8","9"}

Range(s) == {s[i] : i \in DOMAIN s}

LowerChars == Range(LowerLetters)

UpperChars == Range(UpperLetters)

SpaceChars == {" ", "\t", "\n"}

IsDigit(c) == c \in DigitChars

IsUpper(c) == c \in UpperChars

\* str.lower() on one character.
LowerChar(c) ==
    IF IsUpper(c)
    THEN LowerLetters[CHOOSE i \in DOMAIN UpperLetters : UpperLetters[i] = c]
    ELSE c

Lower(s) == [i \in DOMAIN s |-> LowerChar(s[i])]

RECURSIVE LStrip(_, _)
LStrip(s, chars) ==
    IF s # <<>> /\ Head(s) \in chars THEN LStrip(Tail(s), chars) ELSE s

RECURSIVE RStrip(_, _)
RStrip(s, chars) ==
    IF s # <<>> /\ s[Len(s)] \in chars
    THEN RStrip(SubSeq(s, 1, Len(s) - 1), chars)
    ELSE s

\* str.strip() / str.strip(chars)
Strip(s, chars) == RStrip(LStrip(s, chars), chars)

IsSlugChar(c) == c \in LowerChars \cup DigitChars

\* re.sub(r"[^a-z0-9]+", "-", value): every maximal run of characters outside
\* [a-z0-9] becomes one hyphen.
RECURSIVE SubNonAlnum(_, _)
SubNonAlnum(s, inRun) ==
    IF s = <<>> THEN <<>>
    ELSE IF IsSlugChar(Head(s)) THEN <<Head(s)>> \o SubNonAlnum(Tail(s), FALSE)
    ELSE IF inRun THEN SubNonAlnum(Tail(s), TRUE)
    ELSE <<"-">> \o SubNonAlnum(Tail(s), TRUE)

UnknownStore == <<"u","n","k","n","o","w","n","-","s","t","o","r","e">>

slugify(value) ==
    LET v1 == Lower(Strip(value, SpaceChars))
        v2 == SubNonAlnum(v1, FALSE)
        v3 == Strip(v2, {"-"})
    IN  IF v3 # <<>> THEN v3 ELSE UnknownStore

normalize_store_slug(it, fb) ==
    LET store_slug == PyOr(it.store_slug, it.store)
    IN  IF Truthy(store_slug) THEN slugify(Val(store_slug)) ELSE fb

-----------------------------------------------------------------------------
(* to_float: price_current is JSON null, a number or a string.              *)

PNull == [t |-> "null"]

PNum(n) == [t |-> "num", v |-> n]

PStr(s) == [t |-> "str", s |-> s]

\* value.strip().replace("$", "").replace(",", "")
Cleaned(s) == SelectSeq(Strip(s, SpaceChars), LAMBDA c : c \notin {"$", ","})

DigitValue(c) == CHOOSE n \in 0..9 : <<"0","1","2","3","4","5","6","7","8","9">>[n + 1] = c

RECURSIVE Decimal(_)
Decimal(s) ==
    IF s = <<>> THEN 0
    ELSE 10 * Decimal(SubSeq(s, 1, Len(s) - 1)) + DigitValue(s[Len(s)])

\* float(cleaned) on the strings the model draws: a run of digits parses to its
\* value, anything else raises ValueError.
to_float(value) ==
    IF value.t = "null" THEN None
    ELSE IF value.t = "num" THEN Some(value.v)
    ELSE LET cleaned == Cleaned(value.s)
         IN  IF cleaned = <<>> THEN None
             ELSE IF \A i \in DOMAIN cleaned : IsDigit(cleaned[i])
                  THEN Some(Decimal(cleaned))
                  ELSE None

-----------------------------------------------------------------------------
(* extract_url_id and make_item_key.                                        *)

\* Length of the maximal run of characters of the class that starts at u[j].
RECURSIVE RunLen(_, _, _)
RunLen(u, j, class) ==
    IF j <= Len(u) /\ u[j] \in class THEN 1 + RunLen(u, j + 1, class) ELSE 0

UpperAlnumChars == UpperChars \cup DigitChars

Min(S) == CHOOSE x \in S : \A y \in S : x <= y

Max(S) == CHOOSE x \in S : \A y \in S : x >= y

\* re.search(r"/ip/.+/(\d{6,})", url): the leftmost "/ip/" from which the rest
\* matches; the greedy .+ then ends at the last slash that six digits follow.
Pattern1(u) ==
    LET ends(i) == {j \in (i + 5)..Len(u) :
                        u[j] = "/" /\ RunLen(u, j + 1, DigitChars) >= 6}
        starts == {i \in 1..(Len(u) - 3) :
                        /\ u[i] = "/" /\ u[i + 1] = "i"
                        /\ u[i + 2] = "p" /\ u[i + 3] = "/"
                        /\ ends(i) # {}}
    IN  IF starts = {} THEN None
        ELSE LET j == Max(ends(Min(starts)))
             IN  Some(SubSeq(u, j + 1, j + RunLen(u, j + 1, DigitChars)))

\* re.search(r"/(\d{8,})", url) and re.search(r"/([A-Z0-9]{8,})", url): the
\* leftmost slash that a run of at least n such characters follows.
SlashRun(u, class, n) ==
    LET at == {j \in 1..Len(u) : u[j] = "/" /\ RunLen(u, j + 1, class) >= n}
    IN  IF at = {} THEN None
        ELSE LET j == Min(at)
             IN  Some(SubSeq(u, j + 1, j + RunLen(u, j + 1, class)))

Pattern2(u) == SlashRun(u, DigitChars, 8)

Pattern3(u) == SlashRun(u, UpperAlnumChars, 8)

\* a faulty variant: only the first pattern is tried
extract_url_id_first(url) ==
    IF ~Truthy(url) THEN None ELSE Pattern1(Val(url))

extract_url_id(url) ==
    IF ~Truthy(url) THEN None
    ELSE LET u == Val(url)
         IN  IF IsSome(Pattern1(u)) THEN Pattern1(u)
             ELSE IF IsSome(Pattern2(u)) THEN Pattern2(u)
             ELSE Pattern3(u)

\* str(x or "")
StrOrEmpty(o) == IF Truthy(o) THEN Val(o) ELSE <<>>

\* hashlib.sha1(f"{title}|{image}")...[:16], taken to be collision-free: the
\* digest is identified with the text it is computed from.
Digest(title, image) == StrOrEmpty(title) \o <<"|">> \o StrOrEmpty(image)

make_item_key(it) ==
    IF it.sku \notin {None, Some(<<>>)}
    THEN [kind |-> "sku", id |-> Val(it.sku)]
    ELSE LET url_id == extract_url_id(it.url)
         IN  IF Truthy(url_id)
             THEN [kind |-> "urlid", id |-> Val(url_id)]
             ELSE [kind |-> "hash", id |-> Digest(it.title, it.image)]

-----------------------------------------------------------------------------
(* The raw records and the snapshot tree.                                   *)

\* A record of a snapshot file; every field is optional.
Record(sku, url, title, image, store_slug, store, price_current, in_stock) ==
    [sku |-> sku, url |-> url, title |-> title, image |-> image,
     store_slug |-> store_slug, store |-> store,
     price_current |-> price_current, in_stock |-> in_stock]

\* bool(item.get("in_stock", False)) on an optional boolean.
InStock(it) == IsSome(it.in_stock) /\ Val(it.in_stock)

WalmartAll == <<"w","a","l","m","a","r","t","_","a","l","l">>

\* d[k] = v on a dict
Put(f, k, v) == [x \in DOMAIN f \cup {k} |-> IF x = k THEN v ELSE f[x]]

\* d.get(k, {}) on a dict of dicts
GetOrEmpty(f, k) == IF k \in DOMAIN f THEN f[k] ELSE <<>>

RECURSIVE SortedSeq(_)
SortedSeq(S) ==
    IF S = {} THEN <<>> ELSE <<Min(S)>> \o SortedSeq(S \ {Min(S)})

\* strptime(name, "%Y-%m-%d") succeeds
parse_date_ok(name) == name > 0

iter_snapshot_dates(sn) == SortedSeq({d \in sn.dirs : parse_date_ok(d)})

\* Python's seq[k:] for any integer k
SliceFrom(seq, k) ==
    LET n == Len(seq)
        start == IF k < 0 THEN (IF n + k > 0 THEN n + k ELSE 0)
                 ELSE (IF k < n THEN k ELSE n)
    IN  SubSeq(seq, start + 1, n)

\* dates[-days:]
SelectWindow(dates, n) == SliceFrom(dates, 0 - n)

RECURSIVE FilesOf(_, _)
\* the (date, file) pairs in reading order: dates ascending, files as sorted
FilesOf(sn, dates) ==
    IF dates = <<>> THEN <<>>
    ELSE [i \in 1..Len(sn.files[Head(dates)]) |->
              [date |-> Head(dates), file |-> sn.files[Head(dates)][i]]]
         \o FilesOf(sn, Tail(dates))

-----------------------------------------------------------------------------
(* build_history.                                                           *)

Observed(date_str, it) ==
    [date |-> date_str, price |-> to_float(it.price_current),
     present |-> TRUE, in_stock |-> InStock(it)]

Absent(date_str) ==
    [date |-> date_str, price |-> None, in_stock |-> FALSE, present |-> FALSE]

NewEntry(it, date_str) ==
    [title |-> it.title, url |-> it.url, image |-> it.image, sku |-> it.sku,
     history |-> <<>>, max_30d |-> None, min_30d |-> None,
     last_seen |-> date_str]

\* the body of the loop over a file's items
Upsert(st, date_str, file_store_slug, it) ==
    LET store_slug == normalize_store_slug(it, file_store_slug)
        bucket == GetOrEmpty(st, store_slug)
        item_key == make_item_key(it)
        existing == IF item_key \in DOMAIN bucket THEN bucket[item_key]
                    ELSE NewEntry(it, date_str)
        updated == [existing EXCEPT
                      !.history = Put(@, date_str, Observed(date_str, it)),
                      !.last_seen = date_str,
                      !.title = PyOr(it.title, @),
                      !.url = PyOr(it.url, @),
                      !.image = PyOr(it.image, @),
                      !.sku = PyOr(it.sku, @)]
    IN  Put(st, store_slug, Put(bucket, item_key, updated))

RECURSIVE FoldItems(_, _, _, _)
FoldItems(st, date_str, file_store_slug, items) ==
    IF items = <<>> THEN st
    ELSE FoldItems(Upsert(st, date_str, file_store_slug, Head(items)),
                   date_str, file_store_slug, Tail(items))

\* [h["price"] for h in ordered_history if h["present"] and h["price"] is not None]
RECURSIVE WindowPrices(_)
WindowPrices(ordered) ==
    IF ordered = <<>> THEN <<>>
    ELSE (IF Head(ordered).present /\ IsSome(Head(ordered).price)
          THEN <<Val(Head(ordered).price)>> ELSE <<>>)
         \o WindowPrices(Tail(ordered))

\* a faulty variant: the first price of the window instead of the highest
PyMaxFirst(prices) == prices[1]

PyMax(prices) == Max(Range(prices))

PyMin(prices) == Min(Range(prices))

FinalEntry(entry, selected) ==
    LET filled(d) == IF d \in DOMAIN entry.history THEN entry.history[d]
                     ELSE Absent(d)
        ordered_history == [i \in 1..Len(selected) |-> filled(selected[i])]
        prices == WindowPrices(ordered_history)
    IN  [entry EXCEPT
           !.history = ordered_history,
           !.max_30d = IF prices # <<>> THEN Some(PyMax(prices)) ELSE None,
           !.min_30d = IF prices # <<>> THEN Some(PyMin(prices)) ELSE None]

HistoryOutput(st, selected) ==
    [store_slug \in DOMAIN st |->
        [store_slug |-> store_slug,
         items |-> [item_key \in DOMAIN st[store_slug] |->
                        FinalEntry(st[store_slug][item_key], selected)]]]

-----------------------------------------------------------------------------
(* build_deals.                                                             *)

\* a faulty variant: the stock test left out
GuardNoStock(in_stock, price_today, max_30d) ==
    IsSome(price_today) /\ IsSome(max_30d) /\ Val(max_30d) > 0

\* the negation of the skip condition
Guard(in_stock, price_today, max_30d) ==
    in_stock /\ IsSome(price_today) /\ IsSome(max_30d) /\ Val(max_30d) > 0

\* round(num/den, 2), in hundredths, ties to even; the quotient is exact
\* here, where Python rounds the nearest binary double
Round2(num, den) ==
    LET a == 100 * num
        q == a \div den
        r == a - q * den
    IN  IF 2 * r < den THEN q
        ELSE IF 2 * r > den THEN q + 1
        ELSE IF q % 2 = 0 THEN q ELSE q + 1

\* a faulty variant: the rounded percentage compared with the threshold
MeetsRounded(num, den, thr) == 10 * Round2(num, den) >= thr

\* drop_pct >= drop_threshold for drop_pct = num/den percent, den > 0, and a
\* threshold of thr thousandths of a percent
Meets(num, den, thr) == 1000 * num >= thr * den

\* the body of the loop over today's items: the deal appended, if any.
\* pos (the record's place in its file) is a ghost field.
ItemDeal(it, pos, history_items, thr) ==
    LET item_key == make_item_key(it) IN
    IF item_key \notin DOMAIN history_items THEN <<>>
    ELSE
      LET history_entry == history_items[item_key]
          price_today == to_float(it.price_current)
          max_30d == history_entry.max_30d
          in_stock == InStock(it)
      IN  IF ~Guard(in_stock, price_today, max_30d) THEN <<>>
          ELSE
            LET num == (Val(max_30d) - Val(price_today)) * 100
                den == Val(max_30d)
            IN  IF Meets(num, den, thr)
                THEN << [item_key |-> item_key, sku |-> it.sku,
                         title |-> it.title, price_today |-> Val(price_today),
                         max_30d |-> Val(max_30d),
                         drop_pct |-> Round2(num, den), in_stock |-> in_stock,
                         url |-> it.url, image |-> it.image, pos |-> pos] >>
                ELSE <<>>

RECURSIVE ScanDeals(_, _, _, _)
ScanDeals(items, pos, history_items, thr) ==
    IF pos > Len(items) THEN <<>>
    ELSE ItemDeal(items[pos], pos, history_items, thr)
         \o ScanDeals(items, pos + 1, history_items, thr)

Reverse(s) == [i \in 1..Len(s) |-> s[Len(s) + 1 - i]]

\* stable insertion of d into a list ascending by drop_pct
RECURSIVE InsertAsc(_, _)
InsertAsc(sorted, d) ==
    IF sorted = <<>> THEN <<d>>
    ELSE IF sorted[Len(sorted)].drop_pct <= d.drop_pct THEN Append(sorted, d)
    ELSE Append(InsertAsc(SubSeq(sorted, 1, Len(sorted) - 1), d),
                sorted[Len(sorted)])

RECURSIVE SortAsc(_)
SortAsc(s) ==
    IF s = <<>> THEN <<>>
    ELSE InsertAsc(SortAsc(SubSeq(s, 1, Len(s) - 1)), s[Len(s)])

\* a faulty variant: sorted ascending, then reversed (equal drops change places)
SortedDescUnstable(deals) == Reverse(SortAsc(deals))

\* sorted(deals, key=lambda d: d["drop_pct"], reverse=True): list.sort
\* reverses, sorts stably ascending and reverses again
SortedDesc(deals) == Reverse(SortAsc(Reverse(deals)))

\* one iteration of the loop over today's files; src (the file read) is a
\* ghost field
DealsOfFile(file, day, hist_out, thr) ==
    LET store_slug == file.name
        items == file.items
        history_slug == IF items # <<>>
                        THEN normalize_store_slug(items[1], store_slug)
                        ELSE store_slug
        history_items == IF history_slug \in DOMAIN hist_out
                         THEN hist_out[history_slug].items ELSE <<>>
        deals == ScanDeals(items, 1, history_items, thr)
    IN  [date |-> day, store_slug |-> history_slug,
         deals |-> SortedDesc(deals), src |-> store_slug]

-----------------------------------------------------------------------------
(* main(): build_history, write_history_indexes, build_deals, write_deals.  *)

HelperIdle == item = None /\ fallback = None /\ result = None

\* build_history, lines 110-118
BuildHistoryStart ==
    /\ pc = "start"
    /\ LET dates == iter_snapshot_dates(snap) IN
       IF dates = <<>>
       THEN /\ history_output' = <<>>
            /\ today' = None
            /\ selected_dates' = <<>>
            /\ cursor' = <<>>
            /\ pc' = "main"
       ELSE LET selected == SelectWindow(dates, days) IN
            /\ selected_dates' = selected
            /\ today' = Some(selected[Len(selected)])
            /\ cursor' = FilesOf(snap, selected)
            /\ pc' = "fold"
            /\ UNCHANGED history_output
    /\ stores' = <<>>
    /\ UNCHANGED <<snap, days, drop, deals_by_store, history_files,
                   deals_files, item, fallback, result>>

\* build_history, one iteration of the loop over store files
FoldFile ==
    /\ pc = "fold"
    /\ cursor # <<>>
    /\ LET date_str == Head(cursor).date
           store_file == Head(cursor).file
       IN  stores' = IF store_file.name = WalmartAll THEN stores
                      ELSE FoldItems(stores, date_str, store_file.name,
                                     store_file.items)
    /\ cursor' = Tail(cursor)
    /\ UNCHANGED <<snap, days, drop, pc, selected_dates, today,
                   history_output, deals_by_store, history_files,
                   deals_files, item, fallback, result>>

\* build_history, lines 163-190
Finalize ==
    /\ pc = "fold"
    /\ cursor = <<>>
    /\ history_output' = HistoryOutput(stores, selected_dates)
    /\ pc' = "main"
    /\ UNCHANGED <<snap, days, drop, selected_dates, today, stores, cursor,
                   deals_by_store, history_files, deals_files,
                   item, fallback, result>>

\* main, lines 277-282, and the head of build_deals
WriteHistory ==
    /\ pc = "main"
    /\ IF DOMAIN history_output = {}
       THEN /\ pc' = "done"
            /\ UNCHANGED <<cursor, history_files, deals_by_store>>
       ELSE /\ history_files' = history_output
            /\ deals_by_store' = <<>>
            /\ cursor' = FilesOf(snap, <<Val(today)>>)
            /\ pc' = "deals"
    /\ UNCHANGED <<snap, days, drop, selected_dates, today, stores,
                   history_output, deals_files, item, fallback, result>>

\* build_deals, one iteration of the loop over today's files
DealsFile ==
    /\ pc = "deals"
    /\ cursor # <<>>
    /\ LET store_file == Head(cursor).file
           entry == DealsOfFile(store_file, Val(today), history_output, drop)
       IN  deals_by_store' =
              IF store_file.name = WalmartAll THEN deals_by_store
              ELSE Put(deals_by_store, entry.store_slug, entry)
    /\ cursor' = Tail(cursor)
    /\ UNCHANGED <<snap, days, drop, pc, selected_dates, today, stores,
                   history_output, history_files, deals_files,
                   item, fallback, result>>

\* write_deals
WriteDeals ==
    /\ pc = "deals"
    /\ cursor = <<>>
    /\ deals_files' = deals_by_store
    /\ pc' = "done"
    /\ UNCHANGED <<snap, days, drop, selected_dates, today, stores, cursor,
                   history_output, deals_by_store, history_files,
                   item, fallback, result>>

Next ==
    \/ BuildHistoryStart
    \/ FoldFile
    \/ Finalize
    \/ WriteHistory
    \/ DealsFile
    \/ WriteDeals

-----------------------------------------------------------------------------
(* The helpers called on their own.                                         *)

PipeIdle ==
    /\ snap = [dirs |-> {}, files |-> <<>>]
    /\ days = 0 /\ drop = 0
    /\ selected_dates = <<>> /\ today = None /\ stores = <<>>
    /\ cursor = <<>> /\ history_output = <<>> /\ deals_by_store = <<>>
    /\ history_files = <<>> /\ deals_files = <<>>

NormalizeStore ==
    /\ pc = "normalize"
    /\ result' = normalize_store_slug(item, fallback)
    /\ pc' = "normalized"
    /\ UNCHANGED <<pipeVars, item, fallback>>

MakeItemKey ==
    /\ pc = "key"
    /\ result' = make_item_key(item)
    /\ pc' = "keyed"
    /\ UNCHANGED <<pipeVars, item, fallback>>

-----------------------------------------------------------------------------
(* Bounded inputs.                                                          *)

SeqsUpTo(S, n) == UNION {[1..m -> S] : m \in 0..n}

\* every way to fill `slots` files with at most n records of the pool in all
RECURSIVE Fill(_, _, _)
Fill(slots, n, pool) ==
    IF slots = 0 THEN {<<>>}
    ELSE UNION {{<<s>> \o t : t \in Fill(slots - 1, n - Len(s), pool)} :
                    s \in SeqsUpTo(pool, n)}

StrA == <<"a">>

StrB == <<"b">>

Sku1 == <<"k","1">>

Sku2 == <<"k","2">>

\* a record with a sku, a store_slug label, a price and a stock flag
Rec(sku, label, price, stock) ==
    Record(Some(sku), None, None, None, label, None, price, stock)

\* one file a.json in each of the date directories 1..K; with junk, a
\* directory whose name is no date beside them
SnapOne(K, fill, junk) ==
    [dirs |-> (1..K) \cup (IF junk THEN {0} ELSE {}),
     files |-> [d \in 1..K |-> << [name |-> StrA, items |-> fill[d]] >>]]

AllFile == [name |-> WalmartAll,
            items |-> << Rec(Sku1, None, PNum(10), Some(TRUE)) >>]

\* a.json, b.json and walmart_all.json in each of the date directories 1..K
SnapTwo(K, fill) ==
    [dirs |-> 1..K,
     files |-> [d \in 1..K |->
                  << [name |-> StrA, items |-> fill[2 * d - 1]],
                     [name |-> StrB, items |-> fill[2 * d]],
                     AllFile >>]]

InitPipe(sn, d, t) ==
    /\ snap = sn /\ days = d /\ drop = t
    /\ pc = "start"
    /\ selected_dates = <<>> /\ today = None /\ stores = <<>>
    /\ cursor = <<>> /\ history_output = <<>> /\ deals_by_store = <<>>
    /\ history_files = <<>> /\ deals_files = <<>>
    /\ HelperIdle

DefaultDays == 30

DefaultDrop == 15000

\* the window: any number of dates, any window size, items seen on some days
WinPool ==
    { Rec(Sku1, None, PNum(10), Some(TRUE)),
      Rec(Sku1, None, PNum(7), Some(TRUE)),
      Rec(Sku1, None, PNull, Some(TRUE)),
      Rec(Sku2, None, PNum(7), Some(TRUE)) }

InitWindow ==
    \E K \in 0..MaxDates : \E fill \in Fill(K, MaxRecs, WinPool) :
    \E d \in 0..MaxDays :
        InitPipe(SnapOne(K, fill, TRUE), d, DefaultDrop)

SpecWindow == InitWindow /\ [][Next]_vars

\* the guards: out of stock, no stock flag, unparseable and zero prices
GuardPool ==
    { Rec(Sku1, None, PNum(10), Some(TRUE)),
      Rec(Sku1, None, PStr(<<"$","7">>), Some(TRUE)),
      Rec(Sku1, None, PNum(7), Some(FALSE)),
      Rec(Sku1, None, PNum(7), None),
      Rec(Sku1, None, PStr(<<"N","/","A">>), Some(TRUE)),
      Rec(Sku1, None, PNum(0), Some(TRUE)) }

InitGuards ==
    \E K \in 1..MaxGuardDates : \E fill \in Fill(K, MaxRecs, GuardPool) :
        InitPipe(SnapOne(K, fill, FALSE), DefaultDays, DefaultDrop)

SpecGuards == InitGuards /\ [][Next]_vars

\* the drop percentage: prices whose drops need rounding, several thresholds
DropPool ==
    { Rec(Sku1, None, PNum(10), Some(TRUE)),
      Rec(Sku1, None, PNum(7), Some(TRUE)),
      Rec(Sku1, None, PNum(6), Some(TRUE)) }

Thresholds == {15000, 35000, 14290}

InitDrop ==
    \E K \in 1..MaxDates : \E fill \in Fill(K, MaxRecs, DropPool) :
    \E t \in Thresholds :
        InitPipe(SnapOne(K, fill, FALSE), DefaultDays, t)

SpecDrop == InitDrop /\ [][Next]_vars

\* the order of the deals: two items, equal and different drops
SortPool ==
    { Rec(Sku1, None, PNum(10), Some(TRUE)),
      Rec(Sku1, None, PNum(7), Some(TRUE)),
      Rec(Sku2, None, PNum(10), Some(TRUE)),
      Rec(Sku2, None, PNum(7), Some(TRUE)) }

InitSort ==
    \E K \in 1..MaxDates : \E fill \in Fill(K, MaxRecs, SortPool) :
    \E t \in {0, DefaultDrop} :
        InitPipe(SnapOne(K, fill, FALSE), DefaultDays, t)

SpecSort == InitSort /\ [][Next]_vars

\* several stores: two files a day, records that carry store labels
StorePool ==
    { Rec(Sku1, lbl, PNum(p), Some(TRUE)) :
        lbl \in {None, Some(StrA), Some(StrB)}, p \in {7, 10} }

InitStores ==
    \E K \in 1..MaxDates : \E fill \in Fill(2 * K, MaxRecs, StorePool) :
        InitPipe(SnapTwo(K, fill), DefaultDays, DefaultDrop)

SpecStores == InitStores /\ [][Next]_vars

\* normalize_store_slug on its own
LabelChars == {"a", "A", "1", " ", "-", "#"}

Labels(n) == SeqsUpTo(LabelChars, n)

OptLabels(n) == {None} \cup {Some(l) : l \in Labels(n)}

InitSlug ==
    /\ PipeIdle
    /\ pc = "normalize"
    /\ \E a \in OptLabels(MaxLabelLen) : \E b \in OptLabels(1) :
           item = Record(None, None, None, None, a, b, PNull, None)
    /\ fallback \in Labels(MaxLabelLen) \ {<<>>}
    /\ result = None

SpecSlug == InitSlug /\ [][NormalizeStore]_vars

\* make_item_key on its own
Digits8 == <<"1","1","1","1","1","1","1","1">>

Digits6 == <<"2","2","2","2","2","2">>

Upper8 == <<"A","B","C","D","E","F","G","H">>

UrlParts == { <<"/">>, <<"/","i","p","/">>, <<"x">>, Digits8, Digits6, Upper8 }

RECURSIVE Concat(_)
Concat(parts) ==
    IF parts = <<>> THEN <<>> ELSE Head(parts) \o Concat(Tail(parts))

Urls == {Concat(ps) : ps \in SeqsUpTo(UrlParts, MaxUrlParts)}

InitKey ==
    /\ PipeIdle
    /\ pc = "key"
    /\ \E sku \in {None, Some(<<>>), Some(Sku1)} :
       \E url \in {None} \cup {Some(u) : u \in Urls} :
       \E title \in {None, Some(<<"t">>), Some(<<"u">>)} :
       \E image \in {None, Some(<<"i">>)} :
           item = Record(sku, url, title, image, None, None, PNull, None)
    /\ fallback = None
    /\ result = None

SpecKey == InitKey /\ [][MakeItemKey]_vars

-----------------------------------------------------------------------------
(* Properties.                                                              *)

HistoryBuilt == pc \in {"main", "deals", "done"}

DealsStarted == pc \in {"deals", "done"}

ValidDates == {d \in snap.dirs : d > 0}

TodayFiles == IF today = None THEN <<>> ELSE snap.files[Val(today)]

StoreFiles(d) == SelectSeq(snap.files[d], LAMBDA f : f.name # WalmartAll)

TodayFile(stem) == CHOOSE f \in Range(TodayFiles) : f.name = stem

\* the raw prices of the records of date d that belong to store S and item
\* k, in reading order
RECURSIVE PricesIn(_, _, _, _)
PricesIn(items, stem, S, k) ==
    IF items = <<>> THEN <<>>
    ELSE (IF /\ normalize_store_slug(Head(items), stem) = S
             /\ make_item_key(Head(items)) = k
          THEN <<Head(items).price_current>> ELSE <<>>)
         \o PricesIn(Tail(items), stem, S, k)

RECURSIVE PricesOn(_, _, _)
PricesOn(files, S, k) ==
    IF files = <<>> THEN <<>>
    ELSE PricesIn(Head(files).items, Head(files).name, S, k)
         \o PricesOn(Tail(files), S, k)

AllEntries ==
    UNION {{<<S, k>> : k \in DOMAIN history_output[S].items} :
              S \in DOMAIN history_output}

\* C1: build_history selects the last N of the K date directories (all K if
\* fewer than N exist), and every HistoryEntry has exactly one DayObservation
\* per selected date, in strictly ascending date order.
C1_WindowIsLastN ==
    LET K == Cardinality(ValidDates)
        N == IF days < K THEN days ELSE K
    IN  (pc # "start" /\ K > 0) =>
          /\ Len(selected_dates) = N
          /\ \A i \in 1..Len(selected_dates) :
                /\ selected_dates[i] \in ValidDates
                /\ Cardinality({d \in ValidDates : d > selected_dates[i]})
                     = Len(selected_dates) - i
          /\ HistoryBuilt =>
                \A e \in AllEntries :
                  LET h == history_output[e[1]].items[e[2]].history
                  IN  /\ Len(h) = N
                      /\ \A i \in 1..Len(h) : h[i].date = selected_dates[i]

\* The part of C1 that holds: whatever the window, the history of every entry
\* has one observation per selected date, in ascending order; and a window
\* size N >= 1 selects the last N dates.
DenseHistory ==
    /\ pc # "start" =>
          /\ \A i \in 1..Len(selected_dates) : \A j \in 1..Len(selected_dates) :
                i < j => selected_dates[i] < selected_dates[j]
          /\ days >= 1 => C1_WindowIsLastN
    /\ HistoryBuilt =>
          \A e \in AllEntries :
            LET h == history_output[e[1]].items[e[2]].history
            IN  /\ Len(h) = Len(selected_dates)
                /\ \A i \in 1..Len(h) : h[i].date = selected_dates[i]

\* C2: max_30d and min_30d are the maximum and the minimum of the prices of
\* the present, priced observations of the entry's history, both null when
\* there is none; and the observation of a date is the last record of that
\* date for the store and the item (absent when there is no such record).
C2_Extrema ==
    HistoryBuilt =>
      \A e \in AllEntries :
        LET entry == history_output[e[1]].items[e[2]]
            h == entry.history
            P == {Val(h[i].price) : i \in {j \in 1..Len(h) :
                                      h[j].present /\ IsSome(h[j].price)}}
        IN  /\ Len(h) = Len(selected_dates)
            /\ \A i \in 1..Len(h) :
                 LET raw == PricesOn(StoreFiles(selected_dates[i]), e[1], e[2])
                 IN  /\ h[i].present = (raw # <<>>)
                     /\ h[i].price = IF raw = <<>> THEN None
                                     ELSE to_float(raw[Len(raw)])
            /\ IF P = {}
               THEN entry.max_30d = None /\ entry.min_30d = None
               ELSE /\ IsSome(entry.max_30d) /\ IsSome(entry.min_30d)
                    /\ Val(entry.max_30d) \in P /\ Val(entry.min_30d) \in P
                    /\ \A p \in P : Val(entry.min_30d) <= p
                                    /\ p <= Val(entry.max_30d)

\* a finished run in which an item's file of one day holds two records, the
\* first with a price above the item's max_30d, and the item is absent on
\* another day of the window
C2_Witness ==
    /\ pc = "done"
    /\ \E e \in AllEntries :
         LET entry == history_output[e[1]].items[e[2]] IN
         /\ IsSome(entry.max_30d)
         /\ \E i \in 1..Len(entry.history) : ~entry.history[i].present
         /\ \E i \in 1..Len(selected_dates) :
              LET raw == PricesOn(StoreFiles(selected_dates[i]), e[1], e[2])
              IN  /\ Len(raw) >= 2
                  /\ IsSome(to_float(raw[1]))
                  /\ Val(to_float(raw[1])) > Val(entry.max_30d)

AllDeals ==
    UNION {{<<S, i>> : i \in 1..Len(deals_by_store[S].deals)} :
              S \in DOMAIN deals_by_store}

DealAt(x) == deals_by_store[x[1]].deals[x[2]]

\* the record a listed deal was built from
DealRecord(x) == TodayFile(deals_by_store[x[1]].src).items[DealAt(x).pos]

\* C3: no DealEntry is listed for a record of today that is out of stock,
\* whose parsed price is null, whose key has no HistoryEntry in the store
\* looked up, or whose HistoryEntry has max_30d null or <= 0.
C3_Guards ==
    DealsStarted =>
      \A x \in AllDeals :
        LET r == DealRecord(x)
            S == deals_by_store[x[1]].store_slug
            k == make_item_key(r)
        IN  /\ DealAt(x).item_key = k
            /\ IsSome(r.in_stock) /\ Val(r.in_stock)
            /\ IsSome(to_float(r.price_current))
            /\ S \in DOMAIN history_output
            /\ k \in DOMAIN history_output[S].items
            /\ IsSome(history_output[S].items[k].max_30d)
            /\ Val(history_output[S].items[k].max_30d) > 0

\* a finished run whose today-file holds a record that is out of stock and
\* priced 15 % or more under its item's max_30d, and one whose price is null
C3_Witness ==
    /\ pc = "done"
    /\ StrA \in DOMAIN history_output
    /\ \E i \in 1..Len(TodayFile(StrA).items) :
         LET r == TodayFile(StrA).items[i]
             entry == history_output[StrA].items[make_item_key(r)]
         IN  /\ ~InStock(r)
             /\ IsSome(to_float(r.price_current))
             /\ IsSome(entry.max_30d) /\ Val(entry.max_30d) > 0
             /\ 100 * (Val(entry.max_30d) - Val(to_float(r.price_current)))
                  >= 15 * Val(entry.max_30d)
    /\ \E i \in 1..Len(TodayFile(StrA).items) :
         to_float(TodayFile(StrA).items[i].price_current) = None

Abs(x) == IF x < 0 THEN 0 - x ELSE x

\* h hundredths is num/den rounded to two decimal places
Nearest(h, num, den) == 2 * Abs(100 * num - h * den) <= den

\* the entries of the deals output with the file each was computed from
DealsEntries == {deals_by_store[S] : S \in DOMAIN deals_by_store}

Listed(E, i) == \E j \in 1..Len(E.deals) : E.deals[j].pos = i

\* the today-records of E's file that pass the stock, price and max_30d
\* guards against the HistoryEntry looked up for them, each with the
\* percentage num/den it dropped by
Passing(E) ==
    LET f == TodayFile(E.src)
        hist == IF E.store_slug \in DOMAIN history_output
                THEN history_output[E.store_slug].items ELSE <<>>
    IN  {i \in 1..Len(f.items) :
            /\ make_item_key(f.items[i]) \in DOMAIN hist
            /\ InStock(f.items[i])
            /\ IsSome(to_float(f.items[i].price_current))
            /\ IsSome(hist[make_item_key(f.items[i])].max_30d)
            /\ Val(hist[make_item_key(f.items[i])].max_30d) > 0}

DropNum(E, i) ==
    LET r == TodayFile(E.src).items[i]
        m == Val(history_output[E.store_slug].items[make_item_key(r)].max_30d)
    IN  (m - Val(to_float(r.price_current))) * 100

DropDen(E, i) ==
    Val(history_output[E.store_slug].items[
            make_item_key(TodayFile(E.src).items[i])].max_30d)

\* the example of the specification: item X priced 10.00, absent, 7.00
ExampleSnap ==
    SnapOne(3, << << Rec(Sku1, None, PNum(10), Some(TRUE)) >>, << >>,
                  << Rec(Sku1, None, PNum(7), Some(TRUE)) >> >>, FALSE)

ExampleHolds ==
    (snap = ExampleSnap /\ pc = "done") =>
       /\ Val(history_output[StrA].items[[kind |-> "sku", id |-> Sku1]].max_30d)
            = 10
       /\ drop = 15000 =>
            /\ Len(deals_files[StrA].deals) = 1
            /\ deals_files[StrA].deals[1].drop_pct = 3000
       /\ drop = 35000 => deals_files[StrA].deals = <<>>

\* C4 as stated: a record that passes the guards is listed if and only if
\* its drop_pct rounded to two decimal places is >= the threshold, the
\* drop_pct field is that rounded value, and so is >= the threshold.
C4_RoundedThreshold ==
    /\ DealsStarted =>
         \A E \in DealsEntries :
           /\ \A i \in Passing(E) :
                Listed(E, i) <=>
                   \E h \in -10000..10000 :
                      /\ Nearest(h, DropNum(E, i), DropDen(E, i))
                      /\ 10 * h >= drop
           /\ \A j \in 1..Len(E.deals) :
                /\ E.deals[j].pos \in Passing(E)
                /\ Nearest(E.deals[j].drop_pct, DropNum(E, E.deals[j].pos),
                           DropDen(E, E.deals[j].pos))
                /\ 10 * E.deals[j].drop_pct >= drop
    /\ ExampleHolds

\* C4 as amended: a record that passes the guards is listed if and only if
\* its unrounded drop_pct is >= the threshold; the drop_pct field is the
\* percentage rounded to two decimal places, so it is >= the threshold less
\* 0.005, and >= the threshold when that has at most two decimals.
C4_ExactThreshold ==
    /\ DealsStarted =>
         \A E \in DealsEntries :
           /\ \A i \in Passing(E) :
                Listed(E, i) <=> 1000 * DropNum(E, i) >= drop * DropDen(E, i)
           /\ \A j \in 1..Len(E.deals) :
                /\ E.deals[j].pos \in Passing(E)
                /\ Nearest(E.deals[j].drop_pct, DropNum(E, E.deals[j].pos),
                           DropDen(E, E.deals[j].pos))
                /\ 10 * E.deals[j].drop_pct >= drop - 5
                /\ drop % 10 = 0 => 10 * E.deals[j].drop_pct >= drop
    /\ ExampleHolds

\* the example run finished under threshold 15.0, X listed with 30.00
C4_Witness ==
    /\ snap = ExampleSnap /\ pc = "done" /\ drop = 15000
    /\ Len(deals_files[StrA].deals) = 1
    /\ deals_files[StrA].deals[1].drop_pct = 3000

\* C5: every store's deals are in non-increasing order of drop_pct, and
\* deals with equal drop_pct are in the order of their records in the file.
C5_SortedStable ==
    DealsStarted =>
      \A E \in DealsEntries :
        \A i \in 1..Len(E.deals) : \A j \in 1..Len(E.deals) :
           i < j => /\ E.deals[i].drop_pct >= E.deals[j].drop_pct
                    /\ E.deals[i].drop_pct = E.deals[j].drop_pct
                         => E.deals[i].pos < E.deals[j].pos

\* a finished run that lists two deals of different items with equal drop_pct
C5_Witness ==
    /\ pc = "done"
    /\ \E S \in DOMAIN deals_files :
         \E i \in 1..Len(deals_files[S].deals) :
         \E j \in 1..Len(deals_files[S].deals) :
            /\ i < j
            /\ deals_files[S].deals[i].drop_pct = deals_files[S].deals[j].drop_pct
            /\ deals_files[S].deals[i].item_key # deals_files[S].deals[j].item_key

\* the other case of C5: a finished run whose deals were reordered
C5_Reordered ==
    /\ pc = "done"
    /\ \E S \in DOMAIN deals_files :
         \E i \in 1..Len(deals_files[S].deals) :
         \E j \in 1..Len(deals_files[S].deals) :
            i < j /\ deals_files[S].deals[i].pos > deals_files[S].deals[j].pos

\* C10: no item_key is listed twice in a store's deals.
C10_UniqueKeys ==
    DealsStarted =>
      \A E \in DealsEntries :
        \A i \in 1..Len(E.deals) : \A j \in 1..Len(E.deals) :
           E.deals[i].item_key = E.deals[j].item_key => i = j

\* C8: every deal listed under store S comes from a record that normalizes
\* to S, and carries the max_30d of that record's own HistoryEntry.
C8_OwnStore ==
    DealsStarted =>
      \A x \in AllDeals :
        LET r == DealRecord(x)
            own == normalize_store_slug(r, deals_by_store[x[1]].src)
        IN  /\ own = x[1]
            /\ own \in DOMAIN history_output
            /\ make_item_key(r) \in DOMAIN history_output[own].items
            /\ Some(DealAt(x).max_30d)
                 = history_output[own].items[make_item_key(r)].max_30d

\* after a run over a non-empty window the deals output has an entry, dated
\* today, for every store a record of today's files normalizes to and for
\* every today-file without records
C9_EveryStoreListed ==
    (pc = "done" /\ selected_dates # <<>>) =>
      \A i \in 1..Len(TodayFiles) :
        LET f == TodayFiles[i] IN
        f.name # WalmartAll =>
          /\ f.items = <<>> =>
               /\ f.name \in DOMAIN deals_files
               /\ deals_files[f.name].date = Val(today)
          /\ \A p \in 1..Len(f.items) :
               LET S == normalize_store_slug(f.items[p], f.name) IN
               /\ S \in DOMAIN deals_files
               /\ deals_files[S].date = Val(today)

\* C9, in the runs that folded at least one record (main() goes on to
\* build_deals): the deals output has an entry, dated today, for every store
\* a record of today's files normalizes to and for every empty today-file.
C9_AfterHistory ==
    DOMAIN history_output # {} => C9_EveryStoreListed

CanonicalSlug(s) ==
    /\ s # <<>>
    /\ \A i \in 1..Len(s) : s[i] \in LowerChars \cup DigitChars \cup {"-"}
    /\ s[1] # "-" /\ s[Len(s)] # "-"
    /\ \A i \in 1..(Len(s) - 1) : ~(s[i] = "-" /\ s[i + 1] = "-")

\* C6: normalize_store_slug returns a canonical slug: non-empty, lowercase
\* letters, digits and single hyphens only, no hyphen at either end.
C6_Canonical ==
    pc = "normalized" => CanonicalSlug(result)

\* The part of C6 that holds: a label taken from the record is slugified.
C6_RecordLabel ==
    (pc = "normalized" /\ (Truthy(item.store_slug) \/ Truthy(item.store)))
       => CanonicalSlug(result)

\* the url holds a run of 8 or more digits
DigitRuns(u) ==
    {SubSeq(u, i, i + RunLen(u, i, DigitChars) - 1) :
        i \in {j \in 1..Len(u) : /\ u[j] \in DigitChars
                                 /\ (j = 1 \/ u[j - 1] \notin DigitChars)}}

====
